---- MODULE Spec2Model ----
(***************************************************************************)
(* A model of the metaballs animation (script.js, class                    *)
(* OptimizedMetaballs): the ball store, the pointer state, the effect      *)
(* switches, the two rendering backends and the frame loop.                *)
(*                                                                         *)
(* Numbers.  JavaScript numbers are modelled in fixed point:               *)
(*   positions, radii, masses, orbit radii   whole pixels                  *)
(*   velocities                              1/1000 pixel per tick         *)
(*   angles                                  1/1000 radian                 *)
(*   times                                   milliseconds                  *)
(* Every division rounds toward zero.  NaN is a value of its own that      *)
(* every arithmetic operator propagates and every comparison rejects, as   *)
(* IEEE arithmetic does.                                                   *)
(***************************************************************************)
EXTENDS Integers, Sequences, FiniteSets, TLC

----------------------------------------------------------------------------
(* Numbers *)

\* The IEEE value NaN (what undefined * 0.01 evaluates to).
NaN == -1000000000

\* The JavaScript value undefined (a property that was never set).
Undefined == -1000000001

IsNum(a) == a # NaN /\ a # Undefined

\* ToNumber: undefined becomes NaN.
Num(a) == IF a = Undefined THEN NaN ELSE a

Abs(a) == IF a < 0 THEN -a ELSE a

\* Integer quotient rounded toward zero (b > 0).
Quot(a, b) == IF a >= 0 THEN a \div b ELSE -((-a) \div b)

Add(a, b) == IF IsNum(a) /\ IsNum(b) THEN a + b ELSE NaN

Sub(a, b) == IF IsNum(a) /\ IsNum(b) THEN a - b ELSE NaN

Mul(a, b) == IF IsNum(a) /\ IsNum(b) THEN a * b ELSE NaN

\* a * n / d in one rounding (d > 0).
Scale(a, n, d) == IF IsNum(a) /\ IsNum(n) THEN Quot(a * n, d) ELSE NaN

\* Comparisons: false as soon as one side is NaN.
Lt(a, b) == IsNum(a) /\ IsNum(b) /\ a < b

Gt(a, b) == IsNum(a) /\ IsNum(b) /\ a > b

Le(a, b) == IsNum(a) /\ IsNum(b) /\ a <= b

\* Math.max and Math.min: NaN if either argument is NaN.
Max(a, b) == IF IsNum(a) /\ IsNum(b) THEN (IF a >= b THEN a ELSE b) ELSE NaN

Min(a, b) == IF IsNum(a) /\ IsNum(b) THEN (IF a <= b THEN a ELSE b) ELSE NaN

RECURSIVE SqrtIter(_, _, _)
SqrtIter(n, lo, hi) ==
    IF lo >= hi THEN lo
    ELSE LET mid == (lo + hi + 1) \div 2
         IN  IF mid * mid <= n THEN SqrtIter(n, mid, hi)
                               ELSE SqrtIter(n, lo, mid - 1)

\* Math.sqrt, rounded down to a whole number (n < 2^30).
Sqrt(n) == IF ~IsNum(n) \/ n < 0 THEN NaN ELSE SqrtIter(n, 0, 32767)

\* Math.PI in 1/1000 radian.
PI == 3142

TWO_PI == 2 * PI

\* sin of an angle in [0, PI] (1/1000 radian), in 1/1000:
\* 16 a (PI - a) / (5 PI^2 - 4 a (PI - a)).
SinHalf(a) ==
    LET p == a * (PI - a)
    IN  Quot(16 * p, Quot(5 * PI * PI - 4 * p, 1000))

\* Math.sin of an angle in 1/1000 radian, in 1/1000.
Sin(a) ==
    IF ~IsNum(a) THEN NaN
    ELSE LET r == a % TWO_PI
         IN  IF r <= PI THEN SinHalf(r) ELSE -SinHalf(r - PI)

\* Math.cos of an angle in 1/1000 radian, in 1/1000.
Cos(a) == IF ~IsNum(a) THEN NaN ELSE Sin(a + PI \div 2)

\* atan of a ratio z in [0, 1] (1/1000), in 1/1000 radian:
\* z (PI/4 + 0.273 (1 - z)).
AtanUnit(z) == Quot(z * (785 + Quot(273 * (1000 - z), 1000)), 1000)

\* Math.atan2(y, x) in 1/1000 radian, in (-PI, PI].
Atan2(y, x) ==
    IF ~IsNum(y) \/ ~IsNum(x) THEN NaN
    ELSE IF x = 0 /\ y = 0 THEN 0
    ELSE LET ax == Abs(x)
             ay == Abs(y)
             a  == IF ay <= ax THEN AtanUnit(Quot(1000 * ay, ax))
                   ELSE PI \div 2 - AtanUnit(Quot(1000 * ax, ay))
             b  == IF x < 0 THEN PI - a ELSE a
         IN  IF y < 0 THEN -b ELSE b

\* 1 - Math.exp(-5 dt) for dt = ms/1000, in 1/1000:
\* u - u^2/2 + u^3/6 with u = 5 dt.
Smoothing(ms) ==
    LET u == 5 * ms
    IN  u - Quot(u * u, 2000) + Quot(u * u * u, 6000000)

----------------------------------------------------------------------------
(* The ball store *)

\* One entry of this.metaballs as the constructor builds it (the literal
\* plus the vx, vy, mass added by the map).
Ball(x, y, angle, orbitRadius, orbitSpeed) ==
    [x |-> x, y |-> y, vx |-> 0, vy |-> 0, radius |-> 80, mass |-> 80,
     angle |-> angle, orbitRadius |-> orbitRadius, orbitSpeed |-> orbitSpeed,
     isDragging |-> FALSE]

\* this.metaballs as the constructor builds it for a window of w x h.
ConstructedBalls(w, h) ==
    << Ball(Quot(w, 2), Quot(h, 2), 0, 80, 20),
       Ball(Quot(w, 2) + 100, Quot(h, 2) - 50, Quot(2 * PI, 3), 200, 15),
       Ball(Quot(w, 2) - 80, Quot(h, 2) + 80, Quot(4 * PI, 3), 120, 25) >>

\* A hit test that leaves the rim out: < in place of <=.
RECURSIVE HitFrom_Strict(_, _, _, _)
HitFrom_Strict(balls, i, x, y) ==
    IF i = 0 THEN 0
    ELSE LET dx == Sub(x, balls[i].x)
             dy == Sub(y, balls[i].y)
         IN  IF Lt(Add(Mul(dx, dx), Mul(dy, dy)),
                   balls[i].radius * balls[i].radius)
             THEN i
             ELSE HitFrom_Strict(balls, i - 1, x, y)

\* The loop of getMetaballUnderMouse from index i down to 1; 0 is null.
RECURSIVE HitFrom(_, _, _, _)
HitFrom(balls, i, x, y) ==
    IF i = 0 THEN 0
    ELSE LET dx == Sub(x, balls[i].x)
             dy == Sub(y, balls[i].y)
         IN  IF Le(Add(Mul(dx, dx), Mul(dy, dy)),
                   balls[i].radius * balls[i].radius)
             THEN i
             ELSE HitFrom(balls, i - 1, x, y)

\* getMetaballUnderMouse(x, y): the index of the ball returned, 0 for null.
getMetaballUnderMouse(balls, x, y) == HitFrom(balls, Len(balls), x, y)

----------------------------------------------------------------------------
(* Physics *)

\* The body of applyGravity's inner loop with ball2 pushed the way ball1 is
\* pulled.
GravityPair_SameSign(balls, i, j) ==
    LET ball1  == balls[i]
        ball2  == balls[j]
        dx     == Sub(ball2.x, ball1.x)
        dy     == Sub(ball2.y, ball1.y)
        distSq == Add(Mul(dx, dx), Mul(dy, dy))
        dist   == Sqrt(distSq)
    IN  IF Gt(distSq, 10 * 10) /\ Lt(distSq, 500 * 500)
        THEN LET force == Quot(300 * ball1.mass * ball2.mass, distSq)
                 fx    == Quot(force * dx, dist)
                 fy    == Quot(force * dy, dist)
             IN  [balls EXCEPT
                    ![i].vx = Add(@, Quot(fx, ball1.mass)),
                    ![i].vy = Add(@, Quot(fy, ball1.mass)),
                    ![j].vx = Add(@, Quot(fx, ball2.mass)),
                    ![j].vy = Add(@, Quot(fy, ball2.mass))]
        ELSE balls

\* The body of applyGravity's inner loop for the pair (i, j).
GravityPair(balls, i, j) ==
    LET ball1  == balls[i]
        ball2  == balls[j]
        dx     == Sub(ball2.x, ball1.x)
        dy     == Sub(ball2.y, ball1.y)
        distSq == Add(Mul(dx, dx), Mul(dy, dy))
        dist   == Sqrt(distSq)
    IN  IF Gt(distSq, 10 * 10) /\ Lt(distSq, 500 * 500)
        THEN LET force == Quot(300 * ball1.mass * ball2.mass, distSq)
                 fx    == Quot(force * dx, dist)
                 fy    == Quot(force * dy, dist)
             IN  [balls EXCEPT
                    ![i].vx = Add(@, Quot(fx, ball1.mass)),
                    ![i].vy = Add(@, Quot(fy, ball1.mass)),
                    ![j].vx = Sub(@, Quot(fx, ball2.mass)),
                    ![j].vy = Sub(@, Quot(fy, ball2.mass))]
        ELSE balls

RECURSIVE GravityLoop(_, _, _)
GravityLoop(balls, i, j) ==
    IF i > Len(balls) THEN balls
    ELSE IF j > Len(balls) THEN GravityLoop(balls, i + 1, i + 2)
    ELSE GravityLoop(GravityPair(balls, i, j), i, j + 1)

\* applyGravity(): every pair i < j in loop order.
applyGravity(balls) == GravityLoop(balls, 1, 2)

\* handleCollisions() from dot on, with the impulse given to ball1 alone.
CollidePair_OneSided(balls, i, j) ==
    LET ball1  == balls[i]
        ball2  == balls[j]
        dx     == Sub(ball2.x, ball1.x)
        dy     == Sub(ball2.y, ball1.y)
        distSq == Add(Mul(dx, dx), Mul(dy, dy))
        dist   == Sqrt(distSq)
        rsum   == ball1.radius + ball2.radius
    IN  IF Lt(Mul(25, distSq), 16 * rsum * rsum) /\ Gt(distSq, 0)
        THEN LET nx  == Quot(1000 * dx, dist)
                 ny  == Quot(1000 * dy, dist)
                 dot == Add(Scale(Sub(ball2.vx, ball1.vx), nx, 1000),
                            Scale(Sub(ball2.vy, ball1.vy), ny, 1000))
                 imp1 == Scale(dot, 2 * ball2.mass, ball1.mass + ball2.mass)
             IN  IF Gt(dot, 0) THEN balls
                 ELSE [balls EXCEPT
                         ![i].vx = Add(@, Scale(imp1, nx, 1000)),
                         ![i].vy = Add(@, Scale(imp1, ny, 1000))]
        ELSE balls

\* The body of handleCollisions' inner loop for the pair (i, j).
CollidePair(balls, i, j) ==
    LET ball1  == balls[i]
        ball2  == balls[j]
        dx     == Sub(ball2.x, ball1.x)
        dy     == Sub(ball2.y, ball1.y)
        distSq == Add(Mul(dx, dx), Mul(dy, dy))
        dist   == Sqrt(distSq)
        rsum   == ball1.radius + ball2.radius
    IN  \* dist < (r1 + r2) * 0.8 && dist > 0
        IF Lt(Mul(25, distSq), 16 * rsum * rsum) /\ Gt(distSq, 0)
        THEN LET nx  == Quot(1000 * dx, dist)
                 ny  == Quot(1000 * dy, dist)
                 dvx == Sub(ball2.vx, ball1.vx)
                 dvy == Sub(ball2.vy, ball1.vy)
                 dot == Add(Scale(dvx, nx, 1000), Scale(dvy, ny, 1000))
             IN  IF Gt(dot, 0) THEN balls
                 ELSE LET mass1   == ball1.mass
                          mass2   == ball2.mass
                          imp1    == Scale(dot, 2 * mass2, mass1 + mass2)
                          imp2    == Scale(dot, 2 * mass1, mass1 + mass2)
                          overlap == 8 * rsum - 10 * dist
                          separationX == Quot(nx * overlap, 20000)
                          separationY == Quot(ny * overlap, 20000)
                      IN  [balls EXCEPT
                             ![i].vx = Add(@, Scale(imp1, nx, 1000)),
                             ![i].vy = Add(@, Scale(imp1, ny, 1000)),
                             ![j].vx = Sub(@, Scale(imp2, nx, 1000)),
                             ![j].vy = Sub(@, Scale(imp2, ny, 1000)),
                             ![i].x = Sub(@, separationX),
                             ![i].y = Sub(@, separationY),
                             ![j].x = Add(@, separationX),
                             ![j].y = Add(@, separationY)]
        ELSE balls

RECURSIVE CollideLoop(_, _, _)
CollideLoop(balls, i, j) ==
    IF i > Len(balls) THEN balls
    ELSE IF j > Len(balls) THEN CollideLoop(balls, i + 1, i + 2)
    ELSE CollideLoop(CollidePair(balls, i, j), i, j + 1)

\* handleCollisions(): every pair i < j in loop order.
handleCollisions(balls) == CollideLoop(balls, 1, 2)

\* The body of applyMouseForce's forEach for one ball; force is
\* config.mouseForce (times 0.01 in the source, 10/1000 here).
MouseForceBall(ball, m, force, direction) ==
    IF ball.isDragging THEN ball
    ELSE LET dx     == Sub(m.x, ball.x)
             dy     == Sub(m.y, ball.y)
             distSq == Add(Mul(dx, dx), Mul(dy, dy))
             dist   == Sqrt(distSq)
         IN  IF Gt(distSq, 1 * 1) /\ Lt(distSq, 400 * 400)
             THEN [ball EXCEPT
                     !.vx = Add(@, Scale(Mul(force, 10 * direction), dx, dist)),
                     !.vy = Add(@, Scale(Mul(force, 10 * direction), dy, dist))]
             ELSE ball

\* applyMouseForce().
applyMouseForce(balls, m, cfg, fx) ==
    LET force     == Num(cfg.mouseForce)
        direction == IF fx.mouseRepulsion THEN -1 ELSE 1
    IN  [i \in 1..Len(balls) |-> MouseForceBall(balls[i], m, force, direction)]

\* The branch condition of updateMetaballs' per-ball loop: velocity
\* integration (TRUE) or orbital motion (FALSE).
PhysicsActive(fx) == fx.gravity \/ fx.mouseAttraction \/ fx.mouseRepulsion

\* The physics branch for one ball: integrate, damp, reflect, clamp.
IntegrateBall(ball, dt, w, h) ==
    LET x1  == Add(ball.x, Scale(ball.vx, dt * 60, 1000000))
        y1  == Add(ball.y, Scale(ball.vy, dt * 60, 1000000))
        vx1 == Scale(ball.vx, 99, 100)
        vy1 == Scale(ball.vy, 99, 100)
        hitX == Lt(x1, ball.radius) \/ Gt(x1, w - ball.radius)
        hitY == Lt(y1, ball.radius) \/ Gt(y1, h - ball.radius)
    IN  [ball EXCEPT
           !.x  = IF hitX THEN Max(ball.radius, Min(w - ball.radius, x1)) ELSE x1,
           !.y  = IF hitY THEN Max(ball.radius, Min(h - ball.radius, y1)) ELSE y1,
           !.vx = IF hitX THEN Scale(vx1, -7, 10) ELSE vx1,
           !.vy = IF hitY THEN Scale(vy1, -7, 10) ELSE vy1]

\* The orbital branch for one ball: advance the angle, chase the target,
\* add the wobble.
OrbitBall(ball, dt, speed, cx, cy) ==
    LET angle   == Add(ball.angle, Quot(ball.orbitSpeed * speed * 2, 100))
        targetX == Add(cx, Scale(Cos(angle), ball.orbitRadius, 1000))
        targetY == Add(cy, Scale(Sin(angle), ball.orbitRadius, 1000))
        x1      == Add(ball.x, Scale(Sub(targetX, ball.x), Smoothing(dt), 1000))
        y1      == Add(ball.y, Scale(Sub(targetY, ball.y), Smoothing(dt), 1000))
    IN  [ball EXCEPT
           !.angle = angle,
           !.x = Add(x1, Scale(Sin(Mul(angle, 2)), 2, 1000)),
           !.y = Add(y1, Scale(Cos(Scale(angle, 3, 2)), 2, 1000))]

\* The per-ball loop body of updateMetaballs.
MoveBall(ball, dt, cfg, fx, w, h, cx, cy) ==
    IF ball.isDragging THEN ball
    ELSE IF PhysicsActive(fx) THEN IntegrateBall(ball, dt, w, h)
    ELSE OrbitBall(ball, dt, cfg.speed, cx, cy)

\* The elapsed time capped at 0.25 s.
ClampDt_QuarterSecond(deltaTime) == Min(deltaTime, 250)

\* const dt = Math.min(deltaTime * 0.001, 0.1), in ms.
ClampDt(deltaTime) == Min(deltaTime, 100)

\* The physics calls that open updateMetaballs: the store they leave to the
\* per-ball loop.
Forces(balls, cfg, fx, m) ==
    LET b1 == IF fx.gravity THEN applyGravity(balls) ELSE balls
        b2 == IF fx.collision THEN handleCollisions(b1) ELSE b1
    IN  IF fx.mouseAttraction \/ fx.mouseRepulsion
        THEN applyMouseForce(b2, m, cfg, fx) ELSE b2

\* updateMetaballs(deltaTime): the new ball store.
updateMetaballs(balls, deltaTime, cfg, fx, m, w, h, cx, cy) ==
    LET dt == ClampDt(deltaTime)
        b3 == Forces(balls, cfg, fx, m)
    IN  [i \in 1..Len(b3) |-> MoveBall(b3[i], dt, cfg, fx, w, h, cx, cy)]

----------------------------------------------------------------------------
(* Rendering: the operations a call applies to its surface, in order.      *)
(* alpha is in 1/1000.                                                     *)

\* gl.clearColor(0, 0, 0, a); gl.clear(gl.COLOR_BUFFER_BIT)
GlClear(a) == [op |-> "clear", alpha |-> a]

\* ctx.fillStyle = 'rgba(0, 0, 0, a)'; ctx.fillRect(0, 0, width, height)
FillAll(a) == [op |-> "fill", alpha |-> a]

\* document.createElement('canvas'): a new canvas is transparent black.
NewCanvas == [op |-> "create", alpha |-> 0]

\* this.maxBalls.
maxBalls == 20

\* The length of the fragment shader's u_balls, u_colors and u_radii.
ShaderBalls == 10

\* renderWebGL(): how many ball slots it fills and hands to gl.uniform3fv
\* for a store of n balls: one per ball up to maxBalls, then the padding
\* up to maxBalls.
UploadedSlots(n) == Min(n, maxBalls) + Max(0, maxBalls - n)

\* The field samples: gl.drawArrays of the quad, or the fillRect loop.
DrawField == [op |-> "draw", alpha |-> 0]

\* renderWebGL(): returns at once without a context or a program; with a
\* program that failed to link, useProgram and drawArrays are rejected by
\* the context and only the clear takes effect.
renderWebGL(glv, prog) ==
    IF ~glv \/ prog = "null" THEN << >>
    ELSE IF prog = "linked" THEN << GlClear(100), DrawField >>
    ELSE << GlClear(100) >>

\* renderCanvas2D(): the fade fill, then the samples.
renderCanvas2D(ctxv) ==
    IF ~ctxv THEN << >> ELSE << FillAll(100), DrawField >>

\* The render step of animate: which renderer runs and what it does.
RenderFrame(useGl, glv, prog, ctxv) ==
    IF useGl /\ glv
    THEN [renderer |-> "renderWebGL", ops |-> renderWebGL(glv, prog)]
    ELSE IF ctxv
    THEN [renderer |-> "renderCanvas2D", ops |-> renderCanvas2D(ctxv)]
    ELSE [renderer |-> "none", ops |-> << >>]

\* takeScreenshot(): the surface exported and the operations applied to it
\* before toBlob.
takeScreenshot(useGl, glv, prog) ==
    IF useGl /\ glv
    THEN [surface |-> "canvasWebGL",
          ops |-> << GlClear(0) >> \o renderWebGL(glv, prog)]
    ELSE [surface |-> "tempCanvas", ops |-> << NewCanvas, DrawField >>]

\* initWebGL(): the context (gl) and the program it leaves, by what the
\* host's WebGL does: "none" (no context), "compileFail", "linkFail", "ok".
initWebGL(hostGl) ==
    [gl |-> hostGl # "none",
     program |-> IF hostGl = "ok" THEN "linked"
                 ELSE IF hostGl = "linkFail" THEN "unlinked"
                 ELSE "null"]

\* switchMode(): the canvas shown for the new useWebGL.
ShownCanvas(useGl, glv) == IF useGl /\ glv THEN "canvasWebGL" ELSE "canvas2d"

\* resize(): the size of both canvases; quality is in 1/10.
CanvasSize(w, h, q) ==
    [width |-> Max(1, Quot(w * q, 10)), height |-> Max(1, Quot(h * q, 10))]

----------------------------------------------------------------------------
(* State *)

VARIABLES
    metaballs,  \* this.metaballs
    mouse,      \* this.mouse; draggedBall is an index into metaballs, 0 = null
    effects,    \* this.effects
    config,     \* this.config
    view,       \* this.width, height, quality, centerX, centerY, canvas size
    gfx,        \* this.useWebGL, gl, program, ctx, currentCanvas
    loop,       \* this.previousTime, animationId, fps, frameCount, lastTime
    frame,      \* what the last call of animate rendered
    shots,      \* the surfaces exported by takeScreenshot, oldest first
    host,       \* the browser: pointer, button, clock, window, WebGL support
    used        \* the run so far: how many input events and frames it has
                \* taken, and the last one delivered

vars == << metaballs, mouse, effects, config, view, gfx, loop, frame, shots,
           host, used >>

\* Bounds of the exploration.
MaxEvents == 3

MaxFrames == 2

EffectNames == {"colorCycling", "gravity", "collision", "mouseAttraction",
                "mouseRepulsion", "pulsing", "chromatic", "rainbow",
                "clickSpawn"}

\* The state the constructor leaves, before its first call of animate.
Constructed(hostGl, w, h, t0) ==
    [metaballs |-> ConstructedBalls(w, h),
     mouse |-> [x |-> Quot(w, 2), y |-> Quot(h, 2), isDragging |-> FALSE,
                draggedBall |-> 0, offset |-> [x |-> 0, y |-> 0]],
     effects |-> [n \in EffectNames |-> FALSE],
     config |-> [resolution |-> 10, threshold |-> 200, speed |-> 10,
                 glow |-> 130, mouseForce |-> Undefined],
     view |-> [width |-> w, height |-> h, quality |-> 10,
               centerX |-> Quot(w, 2), centerY |-> Quot(h, 2),
               canvas |-> CanvasSize(w, h, 10)],
     gfx |-> [useWebGL |-> FALSE, gl |-> initWebGL(hostGl).gl,
              program |-> initWebGL(hostGl).program, ctx |-> TRUE,
              currentCanvas |-> "canvas2d"],
     loop |-> [previousTime |-> Undefined, animationId |-> FALSE, fps |-> 60,
               frameCount |-> 0, lastTime |-> t0]]

\* updateFPS(currentTime).
updateFPS(l, currentTime) ==
    IF currentTime - l.lastTime >= 1000
    THEN [l EXCEPT !.fps = l.frameCount + 1, !.frameCount = 0,
                   !.lastTime = currentTime]
    ELSE [l EXCEPT !.frameCount = @ + 1]

\* animate's deltaTime: currentTime - (this.previousTime || currentTime).
DeltaTime(previousTime, currentTime) ==
    IF previousTime = Undefined \/ previousTime = 0 THEN 0
    ELSE currentTime - previousTime

\* One call of animate(currentTime) on the record s of program state.
\* fault names where the call throws, if it does: the exception leaves
\* animate before requestAnimationFrame is reached.
animate(s, currentTime, fault) ==
    LET deltaTime == DeltaTime(s.loop.previousTime, currentTime)
        l1    == updateFPS([s.loop EXCEPT !.previousTime = currentTime],
                           currentTime)
        balls == IF fault = "integrator" THEN s.metaballs
                 ELSE updateMetaballs(s.metaballs, deltaTime, s.config,
                                      s.effects, s.mouse, s.view.width,
                                      s.view.height, s.view.centerX,
                                      s.view.centerY)
        drawn == IF fault = "none"
                 THEN RenderFrame(s.gfx.useWebGL, s.gfx.gl, s.gfx.program,
                                  s.gfx.ctx)
                 ELSE [renderer |-> "none", ops |-> << >>]
    IN  [metaballs |-> balls,
         loop |-> [l1 EXCEPT !.animationId = (fault = "none")],
         frame |-> drawn]

\* switchMode() on gfx.
switchMode(g) ==
    [g EXCEPT !.useWebGL = ~g.useWebGL,
              !.currentCanvas = ShownCanvas(~g.useWebGL, g.gl)]

\* resize() on view, for the window size (w, h).
resize(v, w, h) ==
    [v EXCEPT !.width = w, !.height = h,
              !.centerX = Quot(w, 2), !.centerY = Quot(h, 2),
              !.canvas = CanvasSize(w, h, v.quality)]

\* new OptimizedMetaballs(): the fields, init() with its first animate(),
\* then switchMode(); with the browser as the page finds it.
Started(hostGl, w, h, t0) ==
    LET c  == Constructed(hostGl, w, h, t0)
        a  == animate(c, 0, "none")
    IN  [metaballs |-> a.metaballs,
         mouse |-> c.mouse,
         effects |-> c.effects,
         config |-> c.config,
         view |-> c.view,
         gfx |-> switchMode(c.gfx),
         loop |-> a.loop,
         frame |-> a.frame,
         shots |-> << >>,
         host |-> [pointer |-> [x |-> c.mouse.x, y |-> c.mouse.y],
                   where |-> "unknown", pressed |-> FALSE,
                   touching |-> FALSE, now |-> t0, gl |-> hostGl],
         used |-> [events |-> 0, frames |-> 0, last |-> "load"]]

\* The variables hold the state s.
InState(s) ==
    /\ metaballs = s.metaballs
    /\ mouse = s.mouse
    /\ effects = s.effects
    /\ config = s.config
    /\ view = s.view
    /\ gfx = s.gfx
    /\ loop = s.loop
    /\ frame = s.frame
    /\ shots = s.shots
    /\ host = s.host
    /\ used = s.used

InitWith(hostGl, w, h, t0) ==
    \E s \in {Started(hostGl, w, h, t0)} : InState(s)

----------------------------------------------------------------------------
(* Handlers, as functions of the state they read *)

\* handleMouseDown(e): the new mouse.
PressedMouse(balls, m, e) ==
    LET ball == getMetaballUnderMouse(balls, e.x, e.y)
    IN  IF ball # 0
        THEN [x |-> e.x, y |-> e.y, isDragging |-> TRUE, draggedBall |-> ball,
              offset |-> [x |-> Sub(e.x, balls[ball].x),
                          y |-> Sub(e.y, balls[ball].y)]]
        ELSE [m EXCEPT !.x = e.x, !.y = e.y]

\* handleMouseDown(e): the new ball store.
PressedBalls(balls, e) ==
    LET ball == getMetaballUnderMouse(balls, e.x, e.y)
    IN  IF ball # 0 THEN [balls EXCEPT ![ball].isDragging = TRUE] ELSE balls

\* handleMouseMove(e): the new ball store.
MovedBalls(balls, m, e) ==
    IF m.isDragging /\ m.draggedBall # 0
    THEN [balls EXCEPT ![m.draggedBall].x = Sub(e.x, m.offset.x),
                       ![m.draggedBall].y = Sub(e.y, m.offset.y)]
    ELSE balls

\* A release that keeps the orbit the ball had, as part_000's handleMouseUp
\* does.
DropOrbit_KeepsOrbit(ball, cx, cy) == [ball EXCEPT !.isDragging = FALSE]

\* handleMouseUp(): the orbit of the released ball, from where it lies.
DropOrbit(ball, cx, cy) ==
    LET dx == Sub(ball.x, cx)
        dy == Sub(ball.y, cy)
    IN  [ball EXCEPT !.orbitRadius = Sqrt(Add(Mul(dx, dx), Mul(dy, dy))),
                     !.angle = Atan2(dy, dx),
                     !.isDragging = FALSE]

\* handleMouseUp(): the new ball store.
ReleasedBalls(balls, m, cx, cy) ==
    IF m.draggedBall # 0
    THEN [balls EXCEPT ![m.draggedBall] = DropOrbit(@, cx, cy)]
    ELSE balls

\* handleMouseUp(): the new mouse.
ReleasedMouse(m) == [m EXCEPT !.draggedBall = 0, !.isDragging = FALSE]

\* The guard of the click-to-spawn listener.
CanSpawn(balls, m, fx) ==
    fx.clickSpawn /\ ~m.isDragging /\ Len(balls) < 10

\* The click-to-spawn listener: e is the click, rnd the Math.random() draws
\* already turned into vx, vy and orbitSpeed.
SpawnedBalls(balls, m, fx, e, rnd) ==
    IF CanSpawn(balls, m, fx)
    THEN Append(balls,
                [x |-> e.x, y |-> e.y, vx |-> rnd.vx, vy |-> rnd.vy,
                 radius |-> 80, mass |-> 80, angle |-> 0, orbitRadius |-> 100,
                 orbitSpeed |-> rnd.orbitSpeed, isDragging |-> FALSE])
    ELSE balls

\* A keydown switch whose cases '4' and '5' toggle their own effect only.
KeyEffects_NoExclusion(fx, key) ==
    CASE key = "1" -> [fx EXCEPT !.colorCycling = ~@]
      [] key = "2" -> [fx EXCEPT !.gravity = ~@]
      [] key = "3" -> [fx EXCEPT !.collision = ~@]
      [] key = "4" -> [fx EXCEPT !.mouseAttraction = ~@]
      [] key = "5" -> [fx EXCEPT !.mouseRepulsion = ~@]
      [] key = "6" -> [fx EXCEPT !.pulsing = ~@]
      [] key = "7" -> [fx EXCEPT !.chromatic = ~@]
      [] key = "8" -> [fx EXCEPT !.rainbow = ~@]
      [] key \in {"c", "C"} -> [fx EXCEPT !.clickSpawn = ~@]
      [] OTHER -> fx

\* The keydown switch of setupEventListeners on this.effects.
KeyEffects(fx, key) ==
    CASE key = "1" -> [fx EXCEPT !.colorCycling = ~@]
      [] key = "2" -> [fx EXCEPT !.gravity = ~@]
      [] key = "3" -> [fx EXCEPT !.collision = ~@]
      [] key = "4" -> [fx EXCEPT !.mouseAttraction = ~@,
                                 !.mouseRepulsion = FALSE]
      [] key = "5" -> [fx EXCEPT !.mouseRepulsion = ~@,
                                 !.mouseAttraction = FALSE]
      [] key = "6" -> [fx EXCEPT !.pulsing = ~@]
      [] key = "7" -> [fx EXCEPT !.chromatic = ~@]
      [] key = "8" -> [fx EXCEPT !.rainbow = ~@]
      [] key \in {"c", "C"} -> [fx EXCEPT !.clickSpawn = ~@]
      [] OTHER -> fx

\* How many times one keydown event calls takeScreenshot: both keydown
\* listeners handle 's'.
KeyScreenshots(key) == IF key = "s" THEN 2 ELSE 0

\* The click listener of an effect button on this.effects.
ButtonEffects(fx, effect) ==
    LET cleared ==
          IF effect = "mouseAttraction" /\ ~fx.mouseAttraction
          THEN [fx EXCEPT !.mouseRepulsion = FALSE]
          ELSE IF effect = "mouseRepulsion" /\ ~fx.mouseRepulsion
          THEN [fx EXCEPT !.mouseAttraction = FALSE]
          ELSE fx
    IN  [cleared EXCEPT ![effect] = ~@]

----------------------------------------------------------------------------
(* Actions: one per event the browser delivers *)

\* Every input event counts against the exploration bound.
Event(type) == /\ used.events < MaxEvents
               /\ used' = [used EXCEPT !.events = @ + 1, !.last = type]

\* mousedown on the visible canvas: handleMouseDown(e).  The button goes
\* down where the pointer is: where the last mousemove left it, or anywhere
\* while the page has seen no mouse event yet.
MouseDown(e) ==
    /\ Event("mousedown")
    /\ \/ host.where = "unknown"
       \/ host.where = "inside" /\ e = host.pointer
    /\ metaballs' = PressedBalls(metaballs, e)
    /\ mouse' = PressedMouse(metaballs, mouse, e)
    /\ host' = [host EXCEPT !.pointer = e, !.where = "inside",
                            !.pressed = TRUE]
    /\ UNCHANGED << effects, config, view, gfx, loop, frame, shots >>

\* mousemove to another point of the canvas: handleMouseMove(e).
MouseMove(e) ==
    /\ Event("mousemove")
    /\ host.where = "inside" => e # host.pointer
    /\ metaballs' = MovedBalls(metaballs, mouse, e)
    /\ mouse' = [mouse EXCEPT !.x = e.x, !.y = e.y]
    /\ host' = [host EXCEPT !.pointer = e, !.where = "inside"]
    /\ UNCHANGED << effects, config, view, gfx, loop, frame, shots >>

\* mouseup: handleMouseUp().  When the button went down on the canvas the
\* browser may dispatch click right after mouseup, at the pointer; only
\* canvasWebGL has a click listener (click-to-spawn).
MouseUp(click, rnd) ==
    /\ Event(IF click THEN "click" ELSE "mouseup")
    /\ host.where # "outside"
    /\ click => host.pressed /\ gfx.currentCanvas = "canvasWebGL"
    /\ LET released == ReleasedBalls(metaballs, mouse, view.centerX,
                                     view.centerY)
       IN  metaballs' = IF click
                        THEN SpawnedBalls(released, ReleasedMouse(mouse),
                                          effects, host.pointer, rnd)
                        ELSE released
    /\ mouse' = ReleasedMouse(mouse)
    /\ host' = [host EXCEPT !.pressed = FALSE]
    /\ UNCHANGED << effects, config, view, gfx, loop, frame, shots >>

\* mouseleave: handleMouseUp().
MouseLeave ==
    /\ Event("mouseleave")
    /\ host.where # "outside"
    /\ metaballs' = ReleasedBalls(metaballs, mouse, view.centerX, view.centerY)
    /\ mouse' = ReleasedMouse(mouse)
    /\ host' = [host EXCEPT !.where = "outside"]
    /\ UNCHANGED << effects, config, view, gfx, loop, frame, shots >>

\* touchstart: handleTouchStart(e), which calls handleMouseDown; e is
\* e.touches[0].
TouchStart(e) ==
    /\ Event("touchstart")
    /\ metaballs' = PressedBalls(metaballs, e)
    /\ mouse' = PressedMouse(metaballs, mouse, e)
    /\ host' = [host EXCEPT !.touching = TRUE]
    /\ UNCHANGED << effects, config, view, gfx, loop, frame, shots >>

\* touchmove: handleTouchMove(e), which calls handleMouseMove.
TouchMove(e) ==
    /\ Event("touchmove")
    /\ host.touching
    /\ metaballs' = MovedBalls(metaballs, mouse, e)
    /\ mouse' = [mouse EXCEPT !.x = e.x, !.y = e.y]
    /\ UNCHANGED << effects, config, view, gfx, loop, frame, shots, host >>

\* touchend: handleMouseUp().
TouchEnd ==
    /\ Event("touchend")
    /\ host.touching
    /\ metaballs' = ReleasedBalls(metaballs, mouse, view.centerX, view.centerY)
    /\ mouse' = ReleasedMouse(mouse)
    /\ host' = [host EXCEPT !.touching = FALSE]
    /\ UNCHANGED << effects, config, view, gfx, loop, frame, shots >>

\* The screenshots n calls of takeScreenshot export.
Exported(n) ==
    [i \in 1..n |-> takeScreenshot(gfx.useWebGL, gfx.gl, gfx.program)]

\* keydown: both document listeners.
KeyDown(key) ==
    /\ Event("keydown")
    /\ effects' = KeyEffects(effects, key)
    /\ shots' = shots \o Exported(KeyScreenshots(key))
    /\ UNCHANGED << metaballs, mouse, config, view, gfx, loop, frame, host >>

\* click on an effect button.
ButtonClick(effect) ==
    /\ Event("click")
    /\ effects' = ButtonEffects(effects, effect)
    /\ UNCHANGED << metaballs, mouse, config, view, gfx, loop, frame, shots,
                    host >>

\* input on a slider bound to this.config.
SliderInput(name, value) ==
    /\ Event("input")
    /\ config' = [config EXCEPT ![name] = value]
    /\ UNCHANGED << metaballs, mouse, effects, view, gfx, loop, frame, shots,
                    host >>

\* input on the quality slider: this.quality, then resize().
QualityInput(q) ==
    /\ Event("input")
    /\ view' = resize([view EXCEPT !.quality = q], view.width, view.height)
    /\ UNCHANGED << metaballs, mouse, effects, config, gfx, loop, frame, shots,
                    host >>

\* click on the mode button: switchMode(), which ends with resize().
ToggleMode ==
    /\ Event("click")
    /\ gfx' = switchMode(gfx)
    /\ view' = resize(view, view.width, view.height)
    /\ UNCHANGED << metaballs, mouse, effects, config, loop, frame, shots,
                    host >>

\* resize of the window to w x h: resize().
WindowResize(w, h) ==
    /\ Event("resize")
    /\ view' = resize(view, w, h)
    /\ UNCHANGED << metaballs, mouse, effects, config, gfx, loop, frame, shots,
                    host >>

\* The frame callback: animate(currentTime), gap ms after the last one.
\* It runs only if the previous call scheduled it.
Tick(gap, fault) ==
    /\ loop.animationId
    /\ used.frames < MaxFrames
    /\ \E a \in {animate([metaballs |-> metaballs, mouse |-> mouse,
                           effects |-> effects, config |-> config,
                           view |-> view, gfx |-> gfx, loop |-> loop],
                          host.now + gap, fault)} :
           /\ metaballs' = a.metaballs
           /\ loop' = a.loop
           /\ frame' = a.frame
    /\ host' = [host EXCEPT !.now = @ + gap]
    /\ used' = [used EXCEPT !.frames = @ + 1, !.last = "frame"]
    /\ UNCHANGED << mouse, effects, config, view, gfx, shots >>

----------------------------------------------------------------------------
(* The drag specification: pointer and touch events, the physics switches, *)
(* window resizes and frames.                                              *)

Pt(x, y) == [x |-> x, y |-> y]

\* Pointer positions: where balls 1 and 2 overlap, on ball 3 alone, on no
\* ball.
Points == {Pt(450, 280), Pt(330, 400), Pt(700, 500)}

\* Touch positions: on ball 1 alone, on no ball.
TouchPoints == {Pt(400, 300), Pt(100, 100)}

\* Gaps between frames: a 60 Hz frame.
FrameGaps == {16}

NoRandom == [vx |-> 0, vy |-> 0, orbitSpeed |-> 10]

Init == InitWith("ok", 800, 600, 50)

Next ==
    \/ \E e \in Points : MouseDown(e)
    \/ \E e \in Points : MouseMove(e)
    \/ MouseUp(FALSE, NoRandom)
    \/ MouseLeave
    \/ \E e \in TouchPoints : TouchStart(e)
    \/ \E e \in TouchPoints : TouchMove(e)
    \/ TouchEnd
    \/ \E key \in {"2", "3", "4"} : KeyDown(key)
    \/ WindowResize(400, 300)
    \/ \E gap \in FrameGaps : Tick(gap, "none")

Spec == Init /\ [][Next]_vars

----------------------------------------------------------------------------
(* Properties of the drag specification *)

\* A step that is one call of animate.
IsTick == used'.frames # used.frames

\* C1: in every reachable state a ball has isDragging = TRUE only when it is
\* the ball mouse.draggedBall refers to, so at most one ball is flagged as
\* dragged.
C1_OnlyDragTargetIsDragging ==
    \A i \in 1..Len(metaballs) :
        metaballs[i].isDragging => mouse.draggedBall = i

\* C2: across every frame tick the position of a ball whose isDragging is
\* set is not written, and after the tick the drag target lies at the
\* pointer position minus the drag offset recorded at press.
C2_DraggedBallFollowsPointer ==
    [][IsTick =>
         /\ \A i \in 1..Len(metaballs) :
                metaballs[i].isDragging =>
                    /\ metaballs'[i].x = metaballs[i].x
                    /\ metaballs'[i].y = metaballs[i].y
         /\ mouse.draggedBall # 0 =>
                /\ metaballs'[mouse.draggedBall].x = Sub(mouse.x, mouse.offset.x)
                /\ metaballs'[mouse.draggedBall].y = Sub(mouse.y, mouse.offset.y)
      ]_vars

\* The orbit parameters of the balls, in store order.
Orbits(balls) ==
    [i \in 1..Len(balls) |-> << balls[i].orbitRadius, balls[i].angle >>]

\* A step that is one call of handleMouseUp: mouseup (with or without the
\* click that follows it), mouseleave or touchend.
IsRelease ==
    /\ used'.events # used.events
    /\ used'.last \in {"mouseup", "click", "mouseleave", "touchend"}

\* C3: a pointer-up that finds a drag target, lying at P, leaves it with
\* orbitRadius = distance(P, center), angle = atan2(P.y - centerY,
\* P.x - centerX) for the current center and isDragging = FALSE, where it
\* lay, leaves mouse.draggedBall null and every other ball's orbit alone; a
\* pointer-up that finds no drag target changes no ball's orbit parameters.
C3_ReleaseRecomputesOrbit ==
    [][/\ (IsRelease /\ mouse.draggedBall # 0) =>
            LET d  == mouse.draggedBall
                dx == metaballs[d].x - view.centerX
                dy == metaballs[d].y - view.centerY
            IN  /\ metaballs'[d].orbitRadius = Sqrt(dx * dx + dy * dy)
                /\ metaballs'[d].angle = Atan2(dy, dx)
                /\ ~metaballs'[d].isDragging
                /\ metaballs'[d].x = metaballs[d].x
                /\ metaballs'[d].y = metaballs[d].y
                /\ mouse'.draggedBall = 0
                /\ ~mouse'.isDragging
                /\ \A i \in 1..Len(metaballs) :
                       i # d => Orbits(metaballs')[i] = Orbits(metaballs)[i]
       /\ (IsRelease /\ mouse.draggedBall = 0) =>
            \A i \in 1..Len(metaballs) :
                Orbits(metaballs')[i] = Orbits(metaballs)[i]
      ]_vars

\* C3 witness: a pointer-up has just released a ball dragged away after the
\* window was resized: there is no drag target, and the ball's orbit is the
\* one computed from where it lies about the new center, not the one it
\* was built with.
C3_Witness ==
    /\ used.last \in {"mouseup", "mouseleave", "touchend"}
    /\ mouse.draggedBall = 0
    /\ view.centerX # 400
    /\ \E i \in 1..3 :
          LET dx == metaballs[i].x - view.centerX
              dy == metaballs[i].y - view.centerY
          IN  /\ ~metaballs[i].isDragging
              /\ IsNum(metaballs[i].x)
              /\ metaballs[i].orbitRadius # ConstructedBalls(800, 600)[i].orbitRadius
              /\ metaballs[i].orbitRadius = Sqrt(dx * dx + dy * dy)
              /\ metaballs[i].angle = Atan2(dy, dx)

----------------------------------------------------------------------------
(* The hit-test specification: the constructor's balls wherever drags have  *)
(* left them, and presses, moves and releases that query                    *)
(* getMetaballUnderMouse.                                                   *)

\* Where the balls lie: apart, overlapping, on one another.
HitCenters == {Pt(400, 300), Pt(448, 364), Pt(600, 300)}

\* The radii in store order: script.js, part_000.
RadiiProfiles == {<< 80, 80, 80 >>, << 80, 100, 90 >>}

\* Query points: a center; points at exactly 80 from (400, 300), along an
\* axis and off it (48, 64, 80); one pixel beyond the rim; far from every
\* ball.
HitPoints == {Pt(400, 300), Pt(480, 300), Pt(448, 364), Pt(481, 300),
              Pt(100, 550)}

\* The store with ball i at c[i] with radius r[i].
Placed(balls, c, r) ==
    [i \in 1..Len(balls) |->
        [balls[i] EXCEPT !.x = c[i].x, !.y = c[i].y, !.radius = r[i],
                         !.mass = r[i]]]

InitHit ==
    \E s \in {Started("ok", 800, 600, 50)} :
        \E c \in [1..3 -> HitCenters], r \in RadiiProfiles :
            InState([s EXCEPT !.metaballs = Placed(@, c, r)])

NextHit ==
    \/ \E e \in HitPoints : MouseDown(e)
    \/ \E e \in HitPoints : MouseMove(e)
    \/ MouseUp(FALSE, NoRandom)

SpecHit == InitHit /\ [][NextHit]_vars

\* The balls of the store that hold the point (x, y), rim included.
Holding(balls, x, y) ==
    {i \in 1..Len(balls) :
        (x - balls[i].x) * (x - balls[i].x)
          + (y - balls[i].y) * (y - balls[i].y)
            <= balls[i].radius * balls[i].radius}

\* The greatest member of a non-empty set of indices.
Highest(S) == CHOOSE i \in S : \A j \in S : j <= i

\* C4: getMetaballUnderMouse(x, y) is the ball of highest index among those
\* with dx*dx + dy*dy <= radius*radius, a point at exactly radius from the
\* center included, and null (0) when there is none; a press takes that
\* ball as the drag target and a press on no ball takes none.
C4_HitIsTopmostInclusive ==
    [][used'.last = "mousedown" /\ used'.events # used.events =>
         LET S == Holding(metaballs, mouse'.x, mouse'.y)
             hit == getMetaballUnderMouse(metaballs, mouse'.x, mouse'.y)
         IN  /\ S = {} => hit = 0 /\ mouse'.draggedBall = mouse.draggedBall
             /\ S # {} => hit = Highest(S) /\ mouse'.draggedBall = hit
      ]_vars

\* C4 witness: a press at exactly radius from the center of the ball it
\* grabbed, a ball that lies under a ball of lower index holding the same
\* point.
C4_Witness ==
    /\ used.last = "mousedown"
    /\ mouse.draggedBall > 1
    /\ LET b == metaballs[mouse.draggedBall]
       IN  (mouse.x - b.x) * (mouse.x - b.x) + (mouse.y - b.y) * (mouse.y - b.y)
             = b.radius * b.radius
    /\ 1 \in Holding(metaballs, mouse.x, mouse.y)

\* C4 witness of the null result: a press that no ball holds, one pixel
\* beyond a rim, took no drag target.
C4_WitnessNull ==
    /\ used.last = "mousedown"
    /\ Holding(metaballs, mouse.x, mouse.y) = {}
    /\ mouse.draggedBall = 0
    /\ \E i \in 1..Len(metaballs) :
          (mouse.x - metaballs[i].x) * (mouse.x - metaballs[i].x)
            + (mouse.y - metaballs[i].y) * (mouse.y - metaballs[i].y)
              <= (metaballs[i].radius + 1) * (metaballs[i].radius + 1)

----------------------------------------------------------------------------
(* The effects specification: every keyboard shortcut and every effect      *)
(* button, in any order.                                                    *)

\* The keys the keydown listeners handle.
FxKeys == {"1", "2", "3", "4", "5", "6", "7", "8", "c", "C", "s"}

InitFx == InitWith("ok", 800, 600, 50)

NextFx ==
    \/ \E key \in FxKeys : KeyDown(key)
    \/ \E effect \in EffectNames : ButtonClick(effect)

SpecFx == InitFx /\ [][NextFx]_vars

\* C5: mouseAttraction and mouseRepulsion are never both true, whatever
\* keys and effect buttons were used and in whatever order.
C5_AttractionExcludesRepulsion ==
    ~(effects.mouseAttraction /\ effects.mouseRepulsion)

\* C5 witness: two events, the second a click on an effect button, no
\* screenshot taken, and repulsion is the only effect on: the first event
\* enabled attraction and the click on the repulsion button disabled it.
C5_Witness ==
    /\ used.events = 2
    /\ used.last = "click"
    /\ shots = << >>
    /\ effects.mouseRepulsion
    /\ \A n \in EffectNames \ {"mouseRepulsion"} : ~effects[n]

----------------------------------------------------------------------------
(* The spawn specification: click-to-spawn switched on and off, presses,    *)
(* releases and clicks on the canvas, mode switches and frames, from the    *)
(* page as loaded and from the page after earlier spawn clicks.             *)

\* Where the pointer goes: on balls 1 and 2, on no ball the constructor
\* built.
SpawnPoints == {Pt(450, 280), Pt(700, 500)}

\* The draws of Math.random() behind vx, vy and orbitSpeed of a new ball.
SpawnRandoms == {NoRandom, [vx |-> 4000, vy |-> -3000, orbitSpeed |-> 25]}

\* How many spawn clicks came before the runs start.
EarlierClicks == {0, 5, 6, 7}

\* The page s after one click at e: mousedown, mouseup, click.
ClickedOnce(s, e) ==
    LET down == PressedMouse(s.metaballs, s.mouse, e)
        up   == ReleasedMouse(down)
        left == ReleasedBalls(PressedBalls(s.metaballs, e), down,
                              s.view.centerX, s.view.centerY)
    IN  [s EXCEPT
           !.metaballs = SpawnedBalls(left, up, s.effects, e, NoRandom),
           !.mouse = up,
           !.host = [@ EXCEPT !.pointer = e, !.where = "inside"]]

\* The page s after k clicks at e.
RECURSIVE Clicked(_, _, _)
Clicked(s, e, k) ==
    IF k = 0 THEN s
    ELSE CHOOSE t \in {ClickedOnce(u, e) : u \in {Clicked(s, e, k - 1)}} : TRUE

\* The page as loaded (k = 0), or after key 'c' and k clicks at (700, 500).
InitSpawn ==
    \E s \in {Started("ok", 800, 600, 50)}, k \in EarlierClicks :
        \E t \in {IF k = 0 THEN s
                  ELSE Clicked([s EXCEPT !.effects = KeyEffects(@, "c")],
                               Pt(700, 500), k)} :
            InState(t)

NextSpawn ==
    \/ \E e \in SpawnPoints : MouseDown(e)
    \/ \E e \in SpawnPoints : MouseMove(e)
    \/ \E click \in BOOLEAN, rnd \in SpawnRandoms : MouseUp(click, rnd)
    \/ KeyDown("c")
    \/ ToggleMode
    \/ \E gap \in FrameGaps : Tick(gap, "none")

SpecSpawn == InitSpawn /\ [][NextSpawn]_vars

\* C6: the store never holds more balls than the maximum count, never fewer
\* than the three it starts with, and that maximum is no larger than the
\* capacity of the GPU program's ball arrays, so that renderWebGL never
\* hands the program more ball slots than it has.
C6_CountWithinGpuCapacity ==
    /\ 3 <= Len(metaballs)
    /\ Len(metaballs) <= maxBalls
    /\ maxBalls <= ShaderBalls
    /\ UploadedSlots(Len(metaballs)) <= ShaderBalls

\* C7: a click at a point where getMetaballUnderMouse returns a ball adds no
\* ball to the store.
C7_SpawnAvoidsBalls ==
    [][/\ used'.last = "click"
       /\ used'.events # used.events
       /\ getMetaballUnderMouse(metaballs, host.pointer.x, host.pointer.y) # 0
       => Len(metaballs') = Len(metaballs)
      ]_vars

----------------------------------------------------------------------------
(* The rendering specification: the page on a browser with working WebGL,   *)
(* with none, and with a context whose shaders fail to compile or whose     *)
(* program fails to link; mode switches, quality changes, screenshots, and  *)
(* frames in which the integrator or the renderer may throw.                *)

\* What the browser's WebGL does to initWebGL.
HostGls == {"ok", "none", "compileFail", "linkFail"}

\* Where a call of animate throws, if it does.
Faults == {"none", "integrator", "renderer"}

\* Values of the quality slider, in 1/10.
Qualities == {5}

InitRender == \E g \in HostGls : InitWith(g, 800, 600, 50)

NextRender ==
    \/ ToggleMode
    \/ \E q \in Qualities : QualityInput(q)
    \/ \E name \in {"threshold", "glow"} : SliderInput(name, 100)
    \/ KeyDown("s")
    \/ \E gap \in FrameGaps, fault \in Faults : Tick(gap, fault)

SpecRender == InitRender /\ [][NextRender]_vars

\* C8: every call of animate ends with the next call scheduled, a call in
\* which the integrator or the renderer throws included.
C8_AnimateAlwaysReschedules ==
    [][IsTick => loop'.animationId]_vars

\* C9: when a WebGL context was obtained but a shader failed to compile or
\* the program failed to link, the canvas shown is the Canvas2D one and
\* every frame is rendered by renderCanvas2D, after construction and after
\* any number of mode switches.
C9_FailedGpuFallsBackToCpu ==
    host.gl \in {"compileFail", "linkFail"} =>
        /\ gfx.currentCanvas = "canvas2d"
        /\ frame.renderer \in {"renderCanvas2D", "none"}

\* The clears and fills in ops before its first draw.
RECURSIVE ClearsBeforeDraw(_)
ClearsBeforeDraw(ops) ==
    IF ops = << >> \/ Head(ops).op = "draw" THEN << >>
    ELSE << Head(ops) >> \o ClearsBeforeDraw(Tail(ops))

\* C10: in every screenshot taken, the last clear or fill applied to the
\* exported surface before the field samples are drawn has alpha 0, and no
\* clear of alpha 0.1 is applied to it.
C10_ScreenshotBackgroundTransparent ==
    \A k \in 1..Len(shots) :
        LET before == ClearsBeforeDraw(shots[k].ops)
        IN  /\ before # << >> => before[Len(before)].alpha = 0
            /\ \A j \in 1..Len(before) : before[j].alpha # 100

----------------------------------------------------------------------------
(* The blend law: what one sample of total field totalField is drawn with. *)
(* Fields, edges, brightness and alpha are in 1/1000; threshold and glow   *)
(* are the config values.  A sample is [drawn, alpha]: drawn is whether    *)
(* the sample paints its block, alpha the alpha it is written with.        *)

\* smoothstep(edge0, edge1, x) of the class: t = max(0, min(1, (x - edge0)
\* / (edge1 - edge0))), then t * t * (3 - 2 * t).  With edge1 = edge0 the
\* quotient is +Infinity, -Infinity or 0 / 0 = NaN.
smoothstep(edge0, edge1, x) ==
    IF ~IsNum(edge0) \/ ~IsNum(edge1) \/ ~IsNum(x) THEN NaN
    ELSE LET t == IF edge1 = edge0
                  THEN (IF x > edge0 THEN 1000
                        ELSE IF x < edge0 THEN 0 ELSE NaN)
                  ELSE IF edge1 > edge0
                  THEN Max(0, Min(1000, Quot(1000 * (x - edge0),
                                             edge1 - edge0)))
                  ELSE Max(0, Min(1000, Quot(1000 * (edge0 - x),
                                             edge0 - edge1)))
         IN  Scale(Scale(t, t, 1000), Sub(3000, Mul(2, t)), 1000)

\* The GLSL built-in smoothstep(edge0, edge1, x): the same polynomial for
\* edge0 < edge1, and undefined for edge0 >= edge1, where it yields u.
glslSmoothstep(edge0, edge1, x, u) ==
    IF edge0 >= edge1 THEN u ELSE smoothstep(edge0, edge1, x)

\* The GLSL built-in min(x, y): y if y < x, otherwise x.
glslMin(x, y) == IF Lt(y, x) THEN y ELSE x

\* a * b of two values in 1/1000.
MulMilli(a, b) == Scale(a, b, 1000)

\* a to the fifth power, in 1/1000.
Pow5(a) == MulMilli(MulMilli(MulMilli(MulMilli(a, a), a), a), a)

RECURSIVE Pow04Iter(_, _, _)
Pow04Iter(sq, lo, hi) ==
    IF lo >= hi THEN lo
    ELSE LET mid == (lo + hi + 1) \div 2
         IN  IF Pow5(mid) <= sq THEN Pow04Iter(sq, mid, hi)
                                ELSE Pow04Iter(sq, lo, mid - 1)

\* pow(x, 0.4) for 0 <= x <= 10: the greatest r with r^5 <= x^2.
pow04(x) == IF ~IsNum(x) \/ x < 0 THEN NaN
            ELSE Pow04Iter(MulMilli(x, x), 0, 4000)

\* Math.sqrt of a value in 1/1000, in 1/1000.
SqrtMilli(x) == Sqrt(Mul(x, 1000))

NotDrawn(a) == [drawn |-> FALSE, alpha |-> a]

Drawn(a) == [drawn |-> TRUE, alpha |-> a]

\* renderCanvas2D() and the Canvas2D branch of takeScreenshot(), from the
\* test of totalField on: threshold = config.threshold * 0.003, glowFactor
\* = config.glow * 0.015, alpha Math.min(0.95, intensity).
Canvas2DSample(totalField, cfg) ==
    LET threshold == Mul(cfg.threshold, 3)
        glowFactor == Mul(cfg.glow, 15)
    IN  IF Gt(totalField, threshold)
        THEN LET edge == smoothstep(0, Mul(threshold, 2), totalField)
                 intensity ==
                    MulMilli(edge, Min(1500, MulMilli(SqrtMilli(totalField),
                                                     glowFactor)))
             IN  Drawn(Min(950, intensity))
        ELSE NotDrawn(0)

\* main() of the fragment shader, from the test of totalField on; u is
\* what an undefined smoothstep yields.
FragmentSample(totalField, cfg, u) ==
    IF Gt(totalField, Mul(cfg.threshold, 3))
    THEN LET core == glslSmoothstep(cfg.threshold * 3, cfg.threshold * 5,
                                    totalField, u)
             halo == glslSmoothstep(Quot(cfg.threshold, 2),
                                    cfg.threshold * 40, totalField, u)
             brightness == pow04(totalField)
             alpha == Add(MulMilli(MulMilli(core, Mul(cfg.glow, 30)),
                                   brightness),
                          MulMilli(MulMilli(halo, 300), brightness))
         IN  Drawn(glslMin(990, alpha))
    ELSE NotDrawn(0)

\* renderCanvas2D() of part_000, from the test of influence on: threshold
\* = config.threshold * 0.01, glowFactor = config.glow * 0.003, alpha
\* Math.min(1, influence * glowFactor).
Canvas2DSample_part000(influence, cfg) ==
    IF Gt(influence, Mul(cfg.threshold, 10))
    THEN Drawn(Min(1000, MulMilli(influence, Mul(cfg.glow, 3))))
    ELSE NotDrawn(0)

\* main() of the fragment shader of part_000, from the test of influence
\* on; the else branch writes vec4(0.0, 0.0, 0.0, 0.1).
FragmentSample_part000(influence, cfg, u) ==
    IF Gt(influence, Mul(cfg.threshold, 10))
    THEN LET intensity == glslMin(1000, MulMilli(influence,
                                                 Mul(cfg.glow, 3)))
             edge == glslSmoothstep(cfg.threshold * 8, cfg.threshold * 12,
                                    influence, u)
         IN  Drawn(MulMilli(intensity, edge))
    ELSE NotDrawn(100)

----------------------------------------------------------------------------
(* The blend specification: one sample at a time, of any total field,      *)
(* under any threshold and glow set on the sliders, shaded by the Canvas2D *)
(* loop and by the fragment shader of each variant.                        *)

\* Total fields: none, below and just above the default threshold (0.6),
\* one ball's center (1.0), overlapping balls (3.0), ten balls (10.0).
Fields == {0, 100, 600, 601, 1000, 3000, 10000}

Thresholds == {0, 100, 200}

Glows == {0, 50, 130, 200}

\* What an undefined GLSL smoothstep may yield: either end of its range or
\* NaN.
Undefineds == {0, 1000, NaN}

\* One sample shaded by script.js, on both backends.
Shade(totalField, u) ==
    /\ frame' = [renderer |-> "script.js", field |-> totalField,
                 ops |-> << >>,
                 cpu |-> Canvas2DSample(totalField, config),
                 gpu |-> FragmentSample(totalField, config, u)]
    /\ UNCHANGED << metaballs, mouse, effects, config, view, gfx, loop, shots,
                    host, used >>

\* One sample shaded by part_000, on both backends.
ShadePart(influence, u) ==
    /\ frame' = [renderer |-> "part_000", field |-> influence,
                 ops |-> << >>,
                 cpu |-> Canvas2DSample_part000(influence, config),
                 gpu |-> FragmentSample_part000(influence, config, u)]
    /\ UNCHANGED << metaballs, mouse, effects, config, view, gfx, loop, shots,
                    host, used >>

InitBlend ==
    \E s \in {Started("ok", 800, 600, 50)} :
        \E t \in Thresholds, g \in Glows :
            InState([s EXCEPT !.config.threshold = t, !.config.glow = g])

NextBlend ==
    \/ \E f \in Fields, u \in Undefineds : Shade(f, u)
    \/ \E f \in Fields, u \in Undefineds : ShadePart(f, u)

SpecBlend == InitBlend /\ [][NextBlend]_vars

\* A sample was shaded.
Shaded == frame.renderer \in {"script.js", "part_000"}

\* C11: for every non-negative totalField, threshold and glow, the alpha a
\* drawn sample is written with lies in [0, capMax] with capMax below 1.0,
\* in the Canvas2D rasterizer and in the fragment shader, in both source
\* variants.
C11_AlphaBelowOne ==
    Shaded =>
        \A s \in {frame.cpu, frame.gpu} :
            s.drawn => IsNum(s.alpha) /\ 0 <= s.alpha /\ s.alpha < 1000

----------------------------------------------------------------------------
(* The collision specification: handleCollisions and the body of its loop  *)
(* for one pair, on stores of balls that lie apart, overlap or coincide    *)
(* and that approach, part or rest.                                        *)

\* Velocities in 1/1000 pixel per tick: at rest, and two of the size a
\* spawned ball starts with ((Math.random() - 0.5) * 10).
Velocities == {[vx |-> 0, vy |-> 0], [vx |-> 3000, vy |-> 4000],
               [vx |-> -3000, vy |-> -1000]}

\* The store with ball i moving at v[i].
Moving(balls, v) ==
    [i \in 1..Len(balls) |->
        [balls[i] EXCEPT !.vx = v[i].vx, !.vy = v[i].vy]]

\* The pairs the two nested loops visit.
Pairs(balls) == {p \in (1..Len(balls)) \X (1..Len(balls)) : p[1] < p[2]}

\* A step of the physics taken on its own: what ran and on which pair
\* (<< 0, 0 >> for a whole call).
Ran(handler, pair) == [renderer |-> handler, ops |-> << >>, pair |-> pair]

\* The body of handleCollisions' inner loop, run for the pair (i, j).
CollideOnce(i, j) ==
    /\ Event("frame")
    /\ metaballs' = CollidePair(metaballs, i, j)
    /\ frame' = Ran("handleCollisions", << i, j >>)
    /\ UNCHANGED << mouse, effects, config, view, gfx, loop, shots, host >>

\* handleCollisions().
Collide ==
    /\ Event("frame")
    /\ metaballs' = handleCollisions(metaballs)
    /\ frame' = Ran("handleCollisions", << 0, 0 >>)
    /\ UNCHANGED << mouse, effects, config, view, gfx, loop, shots, host >>

InitCollide ==
    \E s \in {Started("ok", 800, 600, 50)} :
        \E c \in [1..3 -> HitCenters], v \in [1..3 -> Velocities] :
            InState([s EXCEPT
                       !.metaballs = Moving(Placed(@, c, << 80, 80, 80 >>),
                                            v)])

NextCollide ==
    \/ \E p \in Pairs(metaballs) : CollideOnce(p[1], p[2])
    \/ Collide

SpecCollide == InitCollide /\ [][NextCollide]_vars

\* dist < (ball1.radius + ball2.radius) * 0.8 && dist > 0, on the squares.
InContact(ball1, ball2) ==
    LET distSq == (ball2.x - ball1.x) * (ball2.x - ball1.x)
                    + (ball2.y - ball1.y) * (ball2.y - ball1.y)
        rsum   == ball1.radius + ball2.radius
    IN  distSq > 0 /\ 25 * distSq < 16 * rsum * rsum

\* dot: the relative velocity along the normal from ball1 to ball2.
NormalDot(ball1, ball2) ==
    LET dx   == ball2.x - ball1.x
        dy   == ball2.y - ball1.y
        dist == Sqrt(dx * dx + dy * dy)
    IN  Quot((ball2.vx - ball1.vx) * Quot(1000 * dx, dist), 1000)
          + Quot((ball2.vy - ball1.vy) * Quot(1000 * dy, dist), 1000)

\* mass * velocity summed over the balls of S.
RECURSIVE MomentumFrom(_, _, _)
MomentumFrom(balls, S, k) ==
    IF k = 0 THEN [x |-> 0, y |-> 0]
    ELSE LET rest == MomentumFrom(balls, S, k - 1)
         IN  IF k \in S
             THEN [x |-> rest.x + balls[k].mass * balls[k].vx,
                   y |-> rest.y + balls[k].mass * balls[k].vy]
             ELSE rest

Momentum(balls, S) == MomentumFrom(balls, S, Len(balls))

\* C12: the collision response conserves the momentum of the pair: for a
\* pair in contact (0 < dist < 0.8 * (r1 + r2)) with dot <= 0, mass1 * v1 +
\* mass2 * v2 is the same before and after, in x and in y, and no other
\* ball changes; for a pair in contact with dot > 0, and for a pair out of
\* contact, no velocity and no position changes; a whole call of
\* handleCollisions conserves the momentum of the store.
C12_CollisionConservesMomentum ==
    [][frame'.renderer = "handleCollisions" =>
         LET i == frame'.pair[1]
             j == frame'.pair[2]
         IN  IF i = 0
             THEN Momentum(metaballs', 1..Len(metaballs))
                    = Momentum(metaballs, 1..Len(metaballs))
             ELSE /\ Momentum(metaballs', {i, j}) = Momentum(metaballs, {i, j})
                  /\ \A k \in 1..Len(metaballs) :
                        k \notin {i, j} => metaballs'[k] = metaballs[k]
                  /\ InContact(metaballs[i], metaballs[j])
                       /\ NormalDot(metaballs[i], metaballs[j]) > 0
                       => metaballs' = metaballs
                  /\ ~InContact(metaballs[i], metaballs[j])
                       => metaballs' = metaballs
      ]_vars

\* C12 witness: the loop body has run for a pair that was in contact and
\* approaching, and left both balls with a velocity other than the one the
\* store was set up with: ball 1 no longer has a velocity of Velocities, so
\* an impulse was applied.
C12_Witness ==
    /\ frame.renderer = "handleCollisions"
    /\ frame.pair = << 1, 2 >>
    /\ used.events = 1
    /\ [vx |-> metaballs[1].vx, vy |-> metaballs[1].vy] \notin Velocities
    /\ [vx |-> metaballs[2].vx, vy |-> metaballs[2].vy] \notin Velocities

----------------------------------------------------------------------------
(* The gravity specification: applyGravity and the body of its loop for    *)
(* one pair, on stores with pairs inside the band of distances (10, 500),  *)
(* on its two ends and coincident.                                         *)

\* Centers at 0, 10, 100, 490 and 500 from one another, and at 100 along a
\* diagonal (60, 80).
GravityCenters == {Pt(100, 300), Pt(110, 300), Pt(160, 380), Pt(600, 300)}

\* At rest, or moving as a spawned ball does.
GravityVelocities == {[vx |-> 0, vy |-> 0], [vx |-> 3000, vy |-> 4000]}

\* The body of applyGravity's inner loop, run for the pair (i, j).
GravityOnce(i, j) ==
    /\ Event("frame")
    /\ metaballs' = GravityPair(metaballs, i, j)
    /\ frame' = Ran("applyGravity", << i, j >>)
    /\ UNCHANGED << mouse, effects, config, view, gfx, loop, shots, host >>

\* applyGravity().
Gravity ==
    /\ Event("frame")
    /\ metaballs' = applyGravity(metaballs)
    /\ frame' = Ran("applyGravity", << 0, 0 >>)
    /\ UNCHANGED << mouse, effects, config, view, gfx, loop, shots, host >>

InitGravity ==
    \E s \in {Started("ok", 800, 600, 50)} :
        \E c \in [1..3 -> GravityCenters], v \in [1..3 -> GravityVelocities] :
            InState([s EXCEPT
                       !.metaballs = Moving(Placed(@, c, << 80, 80, 80 >>),
                                            v)])

NextGravity ==
    \/ \E p \in Pairs(metaballs) : GravityOnce(p[1], p[2])
    \/ Gravity

SpecGravity == InitGravity /\ [][NextGravity]_vars

\* dx * dx + dy * dy of a pair.
DistSq(ball1, ball2) ==
    (ball2.x - ball1.x) * (ball2.x - ball1.x)
      + (ball2.y - ball1.y) * (ball2.y - ball1.y)

\* The velocity of a ball.
VelocityOf(ball) == [vx |-> ball.vx, vy |-> ball.vy]

\* C13: gravity is symmetric: for a pair at a distance strictly inside
\* (10, 500), mass1 * dv1 = -(mass2 * dv2) in x and in y, and each change
\* points toward the other ball; two balls of equal mass at rest 100 px
\* apart get velocities equal in magnitude and opposite in sign, not zero;
\* a pair outside the band gets no velocity change; nothing but the two
\* velocities changes, and a whole call of applyGravity conserves the
\* momentum of the store.
C13_GravityIsSymmetric ==
    [][frame'.renderer = "applyGravity" =>
         LET i == frame'.pair[1]
             j == frame'.pair[2]
         IN  IF i = 0
             THEN Momentum(metaballs', 1..Len(metaballs))
                    = Momentum(metaballs, 1..Len(metaballs))
             ELSE LET b1 == metaballs[i]
                      b2 == metaballs[j]
                      dv1x == metaballs'[i].vx - b1.vx
                      dv1y == metaballs'[i].vy - b1.vy
                      dv2x == metaballs'[j].vx - b2.vx
                      dv2y == metaballs'[j].vy - b2.vy
                      d2 == DistSq(b1, b2)
                      inBand == d2 > 10 * 10 /\ d2 < 500 * 500
                  IN  /\ metaballs' =
                           [metaballs EXCEPT ![i].vx = @ + dv1x,
                                             ![i].vy = @ + dv1y,
                                             ![j].vx = @ + dv2x,
                                             ![j].vy = @ + dv2y]
                      /\ b1.mass * dv1x = -(b2.mass * dv2x)
                      /\ b1.mass * dv1y = -(b2.mass * dv2y)
                      /\ dv1x * (b2.x - b1.x) >= 0 /\ dv1y * (b2.y - b1.y) >= 0
                      /\ dv2x * (b1.x - b2.x) >= 0 /\ dv2y * (b1.y - b2.y) >= 0
                      /\ ~inBand => dv1x = 0 /\ dv1y = 0 /\ dv2x = 0 /\ dv2y = 0
                      /\ d2 = 100 * 100 /\ b1.mass = b2.mass
                           /\ VelocityOf(b1) = [vx |-> 0, vy |-> 0]
                           /\ VelocityOf(b2) = [vx |-> 0, vy |-> 0]
                           => /\ metaballs'[i].vx = -metaballs'[j].vx
                              /\ metaballs'[i].vy = -metaballs'[j].vy
                              /\ VelocityOf(metaballs'[i]) # VelocityOf(b1)
      ]_vars

\* C13 witness: the loop body has run once for two balls 100 px apart along
\* a diagonal, both at rest before, and each now moves toward the other.
C13_Witness ==
    /\ frame.renderer = "applyGravity"
    /\ frame.pair = << 1, 2 >>
    /\ used.events = 1
    /\ DistSq(metaballs[1], metaballs[2]) = 100 * 100
    /\ metaballs[1].vx > 0 /\ metaballs[1].vy > 0
    /\ metaballs[2].vx = -metaballs[1].vx /\ metaballs[2].vy = -metaballs[1].vy
    /\ metaballs[2].x > metaballs[1].x /\ metaballs[2].y > metaballs[1].y

\* C14: the Canvas2D rasterizer and the fragment shader of script.js apply
\* the same blend law with the same constants: a sample of a given total
\* field is drawn by one exactly if it is drawn by the other, and with the
\* same alpha.
C14_BackendsShadeAlike ==
    frame.renderer = "script.js" =>
        /\ frame.cpu.drawn = frame.gpu.drawn
        /\ frame.cpu.drawn => frame.cpu.alpha = frame.gpu.alpha

----------------------------------------------------------------------------
(* The scan specification: the two nested sample loops of renderCanvas2D   *)
(* and of the Canvas2D branch of takeScreenshot, one iteration at a time,  *)
(* under any resolution set on the slider and any window size.  The page   *)
(* has no WebGL here, so Canvas2D is the backend in use.                   *)

\* A resolution taken as it is, without the floor of 1.
Stride_Unclamped(resolution) == resolution

\* const step = Math.max(1, this.config.resolution).
Stride(resolution) == Max(1, resolution)

\* Resolutions: negative, zero, the least stride, a stride that does not
\* divide the canvas, the default.
Resolutions == {-3, 0, 1, 4, 10}

\* Window sizes, [x |-> innerWidth, y |-> innerHeight]: small, empty, tall.
WindowSizes == {Pt(6, 4), Pt(0, 0), Pt(3, 5)}

ScanPaths == {"renderCanvas2D", "takeScreenshot"}

\* A scan is under way: the loops were entered and have not been left.
Scanning == frame.renderer = "scan" /\ ~frame.done

\* No handler is running.
Idle == ~Scanning

\* Entry of the loops: step, width and height are read, y = 0.
ScanBegin(path) ==
    /\ Idle
    /\ gfx.ctx /\ ~(gfx.useWebGL /\ gfx.gl)
    /\ frame' = [renderer |-> "scan", path |-> path, ops |-> << >>,
                 step |-> Stride(config.resolution),
                 width |-> view.canvas.width, height |-> view.canvas.height,
                 x |-> 0, y |-> 0, samples |-> 0, done |-> FALSE]
    /\ UNCHANGED << metaballs, mouse, effects, config, view, gfx, loop, shots,
                    host, used >>

\* One test of a loop condition and what follows it: a sample and x +=
\* step; or the end of a row, y += step and x = 0; or the end of the scan.
\* A scan that has taken more samples than the canvas has pixels is
\* followed no further.
ScanStep ==
    /\ Scanning
    /\ frame.samples <= frame.width * frame.height
    /\ frame' = IF Lt(frame.y, frame.height)
                THEN IF Lt(frame.x, frame.width)
                     THEN [frame EXCEPT !.samples = @ + 1,
                                        !.x = Add(@, frame.step)]
                     ELSE [frame EXCEPT !.y = Add(@, frame.step), !.x = 0]
                ELSE [frame EXCEPT !.done = TRUE]
    /\ UNCHANGED << metaballs, mouse, effects, config, view, gfx, loop, shots,
                    host, used >>

InitScan == InitWith("none", 6, 4, 50)

NextScan ==
    \/ \E r \in Resolutions : Idle /\ SliderInput("resolution", r)
    \/ \E s \in WindowSizes : Idle /\ WindowResize(s.x, s.y)
    \/ \E path \in ScanPaths : ScanBegin(path)
    \/ ScanStep

\* The loops run on: a handler that was entered is run to its end.
SpecScan == InitScan /\ [][NextScan]_vars /\ WF_vars(ScanStep)

\* C15: for every resolution set through config, zero and negative ones
\* included, the stride of the Canvas2D rasterizer and of the Canvas2D
\* screenshot is at least 1, and both nested loops end after at most width
\* * height samples.
C15_ScanTerminates ==
    /\ [](frame.renderer = "scan" =>
            /\ frame.step >= 1
            /\ frame.samples <= frame.width * frame.height)
    /\ (Scanning ~> frame.renderer = "scan" /\ frame.done)

\* C15 witness: a screenshot scan under a resolution of zero or less has
\* ended after sampling every pixel of a canvas of more than one pixel.
C15_Witness ==
    /\ frame.renderer = "scan"
    /\ frame.path = "takeScreenshot"
    /\ frame.done
    /\ config.resolution <= 0
    /\ frame.step = 1
    /\ frame.width * frame.height > 1
    /\ frame.samples = frame.width * frame.height

\* C16: whenever gravity, collision, mouseAttraction and mouseRepulsion are
\* all off, every ball of the store has vx = 0 and vy = 0: the balls the
\* constructor made, the balls spawned by a click, and the balls that moved
\* under physics before the effects were switched off.
C16_NoPhysicsNoVelocity ==
    ~(effects.gravity \/ effects.collision \/ effects.mouseAttraction
        \/ effects.mouseRepulsion) =>
        \A i \in 1..Len(metaballs) :
            metaballs[i].vx = 0 /\ metaballs[i].vy = 0

----------------------------------------------------------------------------
(* The hit-test call specification: getMetaballUnderMouse called twice in  *)
(* a row with one query point, between presses and releases that leave     *)
(* balls dragged or at rest.                                               *)

\* A hit test that marks the ball it returns as dragged, as handleMouseDown
\* does after its call.
HitTestCall_Grabs(balls, m, cfg, x, y) ==
    LET ball == getMetaballUnderMouse(balls, x, y)
    IN  [metaballs |-> IF ball # 0
                       THEN [balls EXCEPT ![ball].isDragging = TRUE]
                       ELSE balls,
         mouse |-> m, config |-> cfg, ball |-> ball]

\* One call of getMetaballUnderMouse(x, y): the state it leaves and the
\* ball it returns.  The loop reads this.metaballs and writes nothing.
HitTestCall(balls, m, cfg, x, y) ==
    [metaballs |-> balls, mouse |-> m, config |-> cfg,
     ball |-> getMetaballUnderMouse(balls, x, y)]

\* Two consecutive calls of getMetaballUnderMouse(e.x, e.y).
HitTwice(e) ==
    /\ Event("hittest")
    /\ \E r1 \in {HitTestCall(metaballs, mouse, config, e.x, e.y)} :
       \E r2 \in {HitTestCall(r1.metaballs, r1.mouse, r1.config, e.x, e.y)} :
          /\ metaballs' = r2.metaballs
          /\ mouse' = r2.mouse
          /\ config' = r2.config
          /\ frame' = [renderer |-> "getMetaballUnderMouse", ops |-> << >>,
                       query |-> e, first |-> r1.ball, second |-> r2.ball]
    /\ UNCHANGED << effects, view, gfx, loop, shots, host >>

NextHitTest ==
    \/ \E e \in HitPoints : MouseDown(e)
    \/ MouseUp(FALSE, NoRandom)
    \/ \E e \in HitPoints : HitTwice(e)

SpecHitTest == InitHit /\ [][NextHitTest]_vars

C17_WitnessNull ==
    /\ used.last = "hittest"
    /\ frame.first = 0 /\ frame.second = 0
    /\ Holding(metaballs, frame.query.x, frame.query.y) = {}

----------------------------------------------------------------------------
(* The resize specification: window resizes, to sizes of zero width or     *)
(* height among others, between frames, on either backend.                 *)

\* Window sizes, [x |-> innerWidth, y |-> innerHeight]: no width, no
\* height, neither, and a window of some area.
ResizeSizes == {Pt(0, 600), Pt(800, 0), Pt(0, 0), Pt(400, 300)}

InitResize == \E g \in {"ok", "none"} : InitWith(g, 800, 600, 50)

NextResize ==
    \/ \E s \in ResizeSizes : WindowResize(s.x, s.y)
    \/ ToggleMode
    \/ \E gap \in FrameGaps : Tick(gap, "none")

SpecResize == InitResize /\ [][NextResize]_vars

\* C18: when a resize has left the output surface with zero area (a window
\* of width 0 or height 0), the next frame tick skips rendering: neither
\* renderer clears or paints anything, and the loop goes on.
C18_ZeroAreaSkipsRendering ==
    [][IsTick /\ (view.width = 0 \/ view.height = 0) =>
         /\ frame'.ops = << >>
         /\ loop'.animationId
      ]_vars

\* C19: a frame tick moves a ball that is not dragged by velocity
\* integration whenever gravity, collision, mouseAttraction or
\* mouseRepulsion is on, and by orbital motion only when all four are off.
\* Orbital motion advances the ball's angle and integration leaves it
\* alone, so with collision the only effect on the angle is not advanced.
C19_AnyPhysicsEffectIntegrates ==
    [][IsTick =>
         \A i \in 1..Len(metaballs) :
            ~metaballs[i].isDragging =>
                IF effects.gravity \/ effects.collision
                     \/ effects.mouseAttraction \/ effects.mouseRepulsion
                THEN metaballs'[i].angle = metaballs[i].angle
                ELSE metaballs'[i].angle # metaballs[i].angle
      ]_vars

\* C20: a frame tick leaves vx, vy, angle and orbitRadius of a ball
\* unchanged while its isDragging is true, whichever effects are on:
\* gravity, the collision response and the mouse force add nothing to a
\* dragged ball.
C20_DraggedBallKeepsVelocity ==
    [][IsTick =>
         \A i \in 1..Len(metaballs) :
            metaballs[i].isDragging =>
                /\ metaballs'[i].vx = metaballs[i].vx
                /\ metaballs'[i].vy = metaballs[i].vy
                /\ metaballs'[i].angle = metaballs[i].angle
                /\ metaballs'[i].orbitRadius = metaballs[i].orbitRadius
      ]_vars

----------------------------------------------------------------------------
(* The motion specification: frame ticks, after a short gap or a stall, on *)
(* stores whose balls rest or move, under any physics effect, a mouse      *)
(* force set on its slider or not, and a window resized to less than a     *)
(* ball's diameter or to a size that leaves balls outside it.              *)

\* The balls at 80, 200 and 361 from the pointer's first place, or one of
\* them on it; all at rest or all moving alike.
InitMotion ==
    \E s \in {Started("ok", 800, 600, 50)} :
        \E c \in {<< Pt(448, 364), Pt(600, 300), Pt(100, 100) >>,
                  << Pt(400, 300), Pt(448, 364), Pt(600, 300) >>},
           v \in Velocities :
            InState([s EXCEPT
                       !.metaballs = Moving(Placed(@, c, << 80, 80, 80 >>),
                                            [i \in 1..3 |-> v])])

NextMotion ==
    \/ \E key \in {"2", "3", "4", "5"} : KeyDown(key)
    \/ SliderInput("mouseForce", 50)
    \/ \E s \in {Pt(100, 600), Pt(400, 300)} : WindowResize(s.x, s.y)
    \/ \E gap \in {0, 16, 5000} : Tick(gap, "none")

SpecMotion == InitMotion /\ [][NextMotion]_vars

\* C21: after every frame tick taken with a physics effect on, every ball
\* that is not dragged lies within the surface by its radius: radius <= x <=
\* width - radius and radius <= y <= height - radius, whatever the surface
\* size (a surface narrower than a diameter included) and whatever effects
\* are on (collision separation in the same tick included).
C21_BallsStayInside ==
    [][IsTick /\ (effects.gravity \/ effects.collision
                    \/ effects.mouseAttraction \/ effects.mouseRepulsion) =>
         \A i \in 1..Len(metaballs') :
            ~metaballs'[i].isDragging =>
                /\ Le(metaballs'[i].radius, metaballs'[i].x)
                /\ Le(metaballs'[i].x, view.width - metaballs'[i].radius)
                /\ Le(metaballs'[i].radius, metaballs'[i].y)
                /\ Le(metaballs'[i].y, view.height - metaballs'[i].radius)
      ]_vars

----------------------------------------------------------------------------
(* The clock specification: frames 0 ms and 16 ms apart and frames after a *)
(* stall of 5 s, with the physics on or off.                               *)

NextClock ==
    \/ \E key \in {"2", "3"} : KeyDown(key)
    \/ \E gap \in {0, 16, 5000} : Tick(gap, "none")

SpecClock == Init /\ [][NextClock]_vars

\* C22: the elapsed time dt the integrator is given is never negative and
\* never more than 0.1 s (100 ms), for every sequence of frame timestamps:
\* the constructor's own call (no previous time, timestamp 0), the first
\* frame after it (previous time 0), frames 0 and 16 ms apart, and frames
\* after a stall.
C22_ElapsedTimeWithinCap ==
    /\ [](ClampDt(DeltaTime(Undefined, 0)) \in 0..100)
    /\ [][IsTick =>
            LET dt == ClampDt(DeltaTime(loop.previousTime, host'.now))
            IN  Le(0, dt) /\ Le(dt, 100)
         ]_vars

\* C22 witness: two frames were taken, each after a stall of 5 s, the second
\* one 5000 ms after the previous time on record.
C22_Witness ==
    /\ used.last = "frame"
    /\ used.frames = 2
    /\ host.now = 50 + 5000 + 5000
    /\ loop.previousTime = host.now

\* C23: with a force strength set, applyMouseForce gives each ball that is
\* not dragged and lies at a distance d from the pointer with 1 < d < 400 a
\* velocity change directed toward the pointer under attraction and away
\* from it under repulsion, of a magnitude inversely proportional to d: of
\* two balls in the band the nearer one gets the strictly larger change.
\* Balls outside the band and dragged balls get no change.
C23_MouseForceInverseToDistance ==
    [][IsTick /\ (effects.mouseAttraction \/ effects.mouseRepulsion)
         /\ IsNum(Num(config.mouseForce)) =>
         LET before == Forces(metaballs, config,
                              [effects EXCEPT !.mouseAttraction = FALSE,
                                              !.mouseRepulsion = FALSE],
                              mouse)
             after  == Forces(metaballs, config, effects, mouse)
             dvx(i) == Sub(after[i].vx, before[i].vx)
             dvy(i) == Sub(after[i].vy, before[i].vy)
             dx(i)  == Sub(mouse.x, before[i].x)
             dy(i)  == Sub(mouse.y, before[i].y)
             d2(i)  == Add(Mul(dx(i), dx(i)), Mul(dy(i), dy(i)))
             size2(i) == Add(Mul(dvx(i), dvx(i)), Mul(dvy(i), dvy(i)))
             inBand(i) == /\ ~before[i].isDragging
                          /\ Gt(d2(i), 1 * 1) /\ Lt(d2(i), 400 * 400)
             sign   == IF effects.mouseRepulsion THEN -1 ELSE 1
         IN  \A i \in 1..Len(before) :
                /\ ~inBand(i) => after[i] = before[i]
                /\ inBand(i) =>
                     /\ Le(0, Mul(sign, Mul(dvx(i), dx(i))))
                     /\ Le(0, Mul(sign, Mul(dvy(i), dy(i))))
                     /\ Gt(size2(i), 0)
                     /\ \A j \in 1..Len(before) :
                           inBand(j) /\ Lt(d2(i), d2(j)) =>
                               Gt(size2(i), size2(j))
      ]_vars

\* C24: on every frame drawn by renderWebGL the ball arrays handed to the
\* program hold exactly as many slots as the shader's arrays have, and the
\* ball-count uniform, the number of balls in the store, is no larger than
\* that.
C24_UploadFitsShaderArrays ==
    frame.renderer = "renderWebGL" /\ Len(frame.ops) > 0 =>
        /\ UploadedSlots(Len(metaballs)) = ShaderBalls
        /\ Len(metaballs) <= ShaderBalls

\* C25: in every state reached from the constructed page the position and
\* the velocity of every ball are finite numbers, and the force strength
\* applyMouseForce reads is a defined number whenever mouse attraction or
\* mouse repulsion is on.
C25_BallStateStaysNumeric ==
    /\ \A i \in 1..Len(metaballs) :
         /\ IsNum(metaballs[i].x) /\ IsNum(metaballs[i].y)
         /\ IsNum(metaballs[i].vx) /\ IsNum(metaballs[i].vy)
    /\ effects.mouseAttraction \/ effects.mouseRepulsion =>
         IsNum(Num(config.mouseForce))

\* C26: with click-to-spawn on, the click that ends a press-drag-release
\* gesture on a ball adds no ball to the store.
C26_DragEndingClickSpawnsNothing ==
    [][used'.last = "click" /\ used.last \in {"mousedown", "mousemove"}
         /\ effects.clickSpawn /\ mouse.draggedBall # 0 =>
         Len(metaballs') = Len(metaballs)]_vars

\* C27: when the physics branch of a tick reflects a ball at a wall, the
\* reflected velocity component is zero or points back into the surface:
\* vx >= 0 after the left wall, vx <= 0 after the right wall, vy >= 0 after
\* the top and vy <= 0 after the bottom, however the ball came to lie
\* outside.
C27_ReflectionPointsInward ==
    [][IsTick /\ PhysicsActive(effects) =>
         LET pre == Forces(metaballs, config, effects, mouse)
             dt  == ClampDt(DeltaTime(loop.previousTime, host'.now))
             x1(i) == Add(pre[i].x, Scale(pre[i].vx, dt * 60, 1000000))
             y1(i) == Add(pre[i].y, Scale(pre[i].vy, dt * 60, 1000000))
         IN  \A i \in 1..Len(pre) :
                ~pre[i].isDragging =>
                  /\ Lt(x1(i), pre[i].radius) => Le(0, metaballs'[i].vx)
                  /\ Gt(x1(i), view.width - pre[i].radius) =>
                       Le(metaballs'[i].vx, 0)
                  /\ Lt(y1(i), pre[i].radius) => Le(0, metaballs'[i].vy)
                  /\ Gt(y1(i), view.height - pre[i].radius) =>
                       Le(metaballs'[i].vy, 0)
      ]_vars

\* C28: each press of 's' calls takeScreenshot exactly once: one keydown of
\* 's', the one key of the render specification, exports exactly one still
\* image.
C28_OneScreenshotPerPress ==
    [][used'.last = "keydown" /\ used'.events # used.events =>
         Len(shots') = Len(shots) + 1]_vars

====
